---- MODULE Spec2Model ----
(***************************************************************************)
(* Buzen's convolution algorithm and the metrics derived from its table,   *)
(* as written in src/src/content/blog/2025-10-28-quantum-counterfeit-      *)
(* coins.md (functions buzen, prob_at_least, expected_queue_length,        *)
(* throughput), with the rescaling variant of the recurrence and two       *)
(* interleaved calls; and the draft filter of the blog pages                *)
(* (src/content.config.ts, src/pages/blog/index.astro and [...slug].astro  *)
(* as given in src/.plans/001-IP.md); the dark-mode scripts of the same    *)
(* plan; and, from the blog, the run loop of the counterfeit-coin script   *)
(* and the Goodstein functions.                                            *)
(*                                                                         *)
(* Numbers: the Python code works on floats.  The model uses integer loads *)
(* and visit ratios, on which float +, * are exact within the bounds, and  *)
(* represents the result of a float division as the exact fraction         *)
(* <<numerator, denominator>> in lowest terms with a positive denominator. *)
(* Lists are TLA+ sequences; Python's 0-based index i is position i + 1,   *)
(* and a negative index counts from the end (PyGet).                       *)
(***************************************************************************)
EXTENDS Integers, Sequences, FiniteSets, TLC

VARIABLES X, N, g, m, n, pc, err, updates, op, qi, qk, qe, ret, qerr,
          gs, scale, threshold,
          pX, pN, pg, pm, pn, ppc,
          files, PROD, index, paths, built,
          theme, prefersDark, loaded, dark, sunHidden, moonHidden,
          num_coins, counterfeit_index, results, num_iterations, coin_data,
          least_common_index, cpc,
          start, max_steps, seq, base, gpc,
          step_n, step_base, hereditary, bumped, step_ret, spc

\* The rescaling variant of the recurrence: its table, the cumulative scale
\* factor and the configured threshold.
scaledVars == <<gs, scale, threshold>>
\* Two independent calls of buzen, one per process.
parVars == <<pX, pN, pg, pm, pn, ppc>>
\* The blog: content files, build mode, the index page and the post routes.
siteVars == <<files, PROD, index, paths, built>>
\* The theme of the site: localStorage.theme, the system preference and, per
\* open page, the class on <html> and the two icons of the toggle.
themeVars == <<theme, prefersDark, loaded, dark, sunHidden, moonHidden>>
\* The counterfeit-coin script: its constants, the last run of the circuit,
\* the run counter and the post-processing.
coinVars == <<num_coins, counterfeit_index, results, num_iterations, coin_data,
              least_common_index, cpc>>
\* A call of goodstein_sequence(start, max_steps).
goodsteinVars == <<start, max_steps, seq, base, gpc>>
\* A call of goodstein_step(n, base).
stepVars == <<step_n, step_base, hereditary, bumped, step_ret, spc>>
\* Everything outside the queueing computations and the blog build.
otherVars == <<themeVars, coinVars, goodsteinVars, stepVars>>

vars == <<X, N, g, m, n, pc, err, updates, op, qi, qk, qe, ret, qerr,
          scaledVars, parVars, siteVars, otherVars>>

\* Bounds of the recurrence runs (Spec): queues, population, largest load.
MaxM == 3
MaxN == 3
MaxLoad == 3
\* Bounds of the runs that go on to query the metrics (SpecMetrics), and the
\* longest list of visit ratios handed to throughput.
MetricsMaxM == 2
MetricsMaxN == 3
MetricsMaxLoad == 3
MaxELen == 2
\* Largest rescaling threshold configured (SpecScaled).
MaxThreshold == 4
\* Bounds of the two interleaved calls (SpecPar): queues and population.
ParMaxM == 2
ParMaxN == 2
\* Most markdown files in src/content/blog (SpecSite).
MaxFiles == 2

\* Loads handed to buzen: the negative one exercises the absence of validation.
Loads == -1..MaxLoad
\* Populations handed to buzen, including negative ones.
Populations == -2..MaxN
\* Loads and populations of the networks whose metrics are queried.
MetricsLoads == 0..MetricsMaxLoad
MetricsPopulations == 0..MetricsMaxN
\* Visit ratios handed to throughput.
VisitRatios == 0..2

SeqsUpTo(S, len) == UNION {[1..l -> S] : l \in 0..len}

(***************************************************************************)
(* Python list primitives.                                                 *)
(***************************************************************************)
\* i is a legal index of list s (Python accepts -len(s) .. len(s)-1).
PyInRange(s, i) == -Len(s) <= i /\ i <= Len(s) - 1

\* s[i] with Python's wrap-around of negative indices.
PyGet(s, i) == IF i >= 0 THEN s[i + 1] ELSE s[Len(s) + i + 1]

\* s[i] = v
PySet(s, i, v) == IF i >= 0 THEN [s EXCEPT ![i + 1] = v]
                            ELSE [s EXCEPT ![Len(s) + i + 1] = v]

\* [v] * k : k copies of v, the empty list when k <= 0.
PyRepeat(v, k) == [j \in 1..k |-> v]

\* x ** k for an integer k >= 0 (x ** 0 is 1.0, also for x = 0.0).
RECURSIVE PyPow(_, _)
PyPow(x, k) == IF k <= 0 THEN 1 ELSE x * PyPow(x, k - 1)

(***************************************************************************)
(* Exact fractions standing for the results of float division.             *)
(***************************************************************************)
Abs(a) == IF a < 0 THEN -a ELSE a

RECURSIVE Gcd(_, _)
Gcd(a, b) == IF b = 0 THEN a ELSE Gcd(b, a % b)

\* a / b for b # 0, in lowest terms.
Div(a, b) ==
    LET d == Gcd(Abs(a), Abs(b))
        s == IF b < 0 THEN -1 ELSE 1
    IN  <<(s * a) \div d, (s * b) \div d>>

\* The float c (an integer here) times the fraction r.
Scale(c, r) == Div(c * r[1], r[2])

Zero == <<0, 1>>
One == <<1, 1>>

\* Sum, negation, product and quotient (b # 0) of fractions.
RatAdd(a, b) == Div(a[1] * b[2] + b[1] * a[2], a[2] * b[2])
RatNeg(a) == <<-a[1], a[2]>>
RatMul(a, b) == Div(a[1] * b[1], a[2] * b[2])
RatDiv(a, b) == Div(a[1] * b[2], a[2] * b[1])

(***************************************************************************)
(* buzen(X, N)                                                             *)
(***************************************************************************)
\* Mutant: the table is allocated one entry short, [0.0] * N.
AllocTableShort(N0) == PyRepeat(0, N0)

\* Mutant: the allocation clamps the length to at least one entry.
AllocTableClamped(N0) == PyRepeat(0, IF N0 + 1 < 1 THEN 1 ELSE N0 + 1)

\* g = [0.0] * (N + 1)
AllocTable(N0) == PyRepeat(0, N0 + 1)

\* Mutant: the assignment g[0] = 1.0 is forgotten.
InitTableNoOne(N0) == PyRepeat(0, N0 + 1)

\* g[0] = 1.0 on the freshly allocated list
InitTable(N0) == PySet(AllocTable(N0), 0, 1)

\* Mutant: "=" in place of "+=", the previous queue's column is dropped.
UpdateOverwrite(g0, x, n0) == PySet(g0, n0, x * PyGet(g0, n0 - 1))

\* Mutant: a negative load is silently clamped to its magnitude.
UpdateClamped(g0, x, n0) ==
    PySet(g0, n0, PyGet(g0, n0) + (IF x < 0 THEN -x ELSE x) * PyGet(g0, n0 - 1))

\* Mutant: the right-hand side reads g[n] instead of g[n - 1].
UpdateSameIndex(g0, x, n0) == PySet(g0, n0, PyGet(g0, n0) + x * PyGet(g0, n0))

\* g[n] += x * g[n - 1]
Update(g0, x, n0) == PySet(g0, n0, PyGet(g0, n0) + x * PyGet(g0, n0 - 1))

\* The state at the call of buzen(X, N), before its first statement.
AtCall ==
    /\ g = <<>>
    /\ m = 0
    /\ n = 0
    /\ pc = "call"
    /\ err = "none"
    /\ updates = 0
    /\ op = "none"
    /\ qi = 0
    /\ qk = 0
    /\ qe = <<>>
    /\ ret = <<>>
    /\ qerr = "none"

\* The two loops of buzen run to completion from table g0, as a function:
\* the inner loop from index n0 on, the outer loop from queue m0 on.
RECURSIVE inner_loop(_, _, _, _)
inner_loop(g0, x, n0, N0) ==
    IF n0 > N0 THEN g0 ELSE inner_loop(Update(g0, x, n0), x, n0 + 1, N0)

RECURSIVE outer_loop(_, _, _, _)
outer_loop(g0, X0, m0, N0) ==
    IF m0 > Len(X0) THEN g0
    ELSE outer_loop(inner_loop(g0, X0[m0], 1, N0), X0, m0 + 1, N0)

\* buzen(X, N) for N >= 0: the returned table.
buzen(X0, N0) == outer_loop(InitTable(N0), X0, 1, N0)

\* The parts of the state a run does not use stay as they are here.
ScaledIdle == gs = <<>> /\ scale = One /\ threshold = 0
ParIdle ==
    /\ pX = <<>> /\ pN = <<>> /\ pg = <<>>
    /\ pm = <<>> /\ pn = <<>> /\ ppc = <<>>
SiteIdle ==
    /\ files = <<>> /\ PROD = FALSE
    /\ index = <<>> /\ paths = <<>> /\ built = {}
ThemeIdle ==
    /\ theme = "none" /\ prefersDark = FALSE
    /\ loaded = <<>> /\ dark = <<>> /\ sunHidden = <<>> /\ moonHidden = <<>>
CoinIdle ==
    /\ num_coins = 0 /\ counterfeit_index = 0 /\ results = <<>>
    /\ num_iterations = 0 /\ coin_data = <<>> /\ least_common_index = 0
    /\ cpc = "idle"
GoodsteinIdle ==
    /\ start = 0 /\ max_steps = 0 /\ seq = <<>> /\ base = 0 /\ gpc = "idle"
StepIdle ==
    /\ step_n = 0 /\ step_base = 0 /\ hereditary = <<>> /\ bumped = 0
    /\ step_ret = 0 /\ spc = "idle"
OtherIdle == ThemeIdle /\ CoinIdle /\ GoodsteinIdle /\ StepIdle

Init ==
    /\ X \in SeqsUpTo(Loads, MaxM)
    /\ N \in Populations
    /\ AtCall
    /\ ScaledIdle /\ ParIdle /\ SiteIdle /\ OtherIdle

noQuery ==
    UNCHANGED <<op, qi, qk, qe, ret, qerr, scaledVars, parVars, siteVars, otherVars>>

\* Lines 888-889: allocate the table and set g[0]; the assignment raises
\* IndexError when the list is empty (N + 1 <= 0).
BuzenInit ==
    /\ pc = "call"
    /\ IF PyInRange(AllocTable(N), 0)
       THEN /\ g' = InitTable(N)
            /\ pc' = "outer"
            /\ err' = err
       ELSE /\ g' = AllocTable(N)
            /\ pc' = "raised"
            /\ err' = "IndexError"
    /\ UNCHANGED <<X, N, m, n, updates>>
    /\ noQuery

\* Line 891: "for x in X" takes the next load and starts range(1, N + 1).
NextQueue ==
    /\ pc = "outer"
    /\ m < Len(X)
    /\ m' = m + 1
    /\ n' = 1
    /\ pc' = "inner"
    /\ UNCHANGED <<X, N, g, err, updates>>
    /\ noQuery

\* Mutant: the inner loop advances by two, range(1, N + 1, 2).
InnerStepStride ==
    /\ pc = "inner"
    /\ n <= N
    /\ g' = Update(g, X[m], n)
    /\ n' = n + 2
    /\ updates' = updates + 1
    /\ UNCHANGED <<X, N, m, pc, err>>
    /\ noQuery

\* Lines 892-893: one multiply-add of the inner loop; updates counts the
\* executions of line 893.
InnerStep ==
    /\ pc = "inner"
    /\ n <= N
    /\ g' = Update(g, X[m], n)
    /\ n' = n + 1
    /\ updates' = updates + 1
    /\ UNCHANGED <<X, N, m, pc, err>>
    /\ noQuery

\* Line 892: range(1, N + 1) is exhausted, back to the outer loop.
InnerEnd ==
    /\ pc = "inner"
    /\ n > N
    /\ pc' = "outer"
    /\ UNCHANGED <<X, N, g, m, n, err, updates>>
    /\ noQuery

\* Line 895: every load has been folded in; return g.
Return ==
    /\ pc = "outer"
    /\ m = Len(X)
    /\ pc' = "done"
    /\ UNCHANGED <<X, N, g, m, n, err, updates>>
    /\ noQuery

(***************************************************************************)
(* Metrics: each function returns a value or raises.  A result is the      *)
(* record [err, val]; val is the list of returned numbers (one entry for a *)
(* function that returns a single float).                                  *)
(***************************************************************************)
Returns(v) == [err |-> "none", val |-> v]
Raises(e) == [err |-> e, val |-> <<>>]

\* Mutant: the guard is "k >= N" instead of "k > N".
prob_at_least_early(g0, X0, i, k) ==
    LET N0 == Len(g0) - 1
    IN  IF k >= N0 THEN Returns(<<Zero>>)
        ELSE IF PyGet(g0, N0) = 0 THEN Raises("ZeroDivisionError")
        ELSE Returns(<<Div(PyPow(PyGet(X0, i), k) * PyGet(g0, N0 - k), PyGet(g0, N0))>>)

\* Mutant: g[k] is read instead of g[N - k].
prob_at_least_index(g0, X0, i, k) ==
    LET N0 == Len(g0) - 1
    IN  IF k > N0 THEN Returns(<<Zero>>)
        ELSE IF PyGet(g0, N0) = 0 THEN Raises("ZeroDivisionError")
        ELSE Returns(<<Div(PyPow(PyGet(X0, i), k) * PyGet(g0, k), PyGet(g0, N0))>>)

\* Mutant: "*" in place of "**".
prob_at_least_times(g0, X0, i, k) ==
    LET N0 == Len(g0) - 1
    IN  IF k > N0 THEN Returns(<<Zero>>)
        ELSE IF PyGet(g0, N0) = 0 THEN Raises("ZeroDivisionError")
        ELSE Returns(<<Div((PyGet(X0, i) * k) * PyGet(g0, N0 - k), PyGet(g0, N0))>>)

\* prob_at_least(g, X, i, k), lines 936-941.
prob_at_least(g0, X0, i, k) ==
    LET N0 == Len(g0) - 1
    IN  IF k > N0 THEN Returns(<<Zero>>)
        ELSE IF PyGet(g0, N0) = 0 THEN Raises("ZeroDivisionError")
        ELSE Returns(<<Div(PyPow(PyGet(X0, i), k) * PyGet(g0, N0 - k), PyGet(g0, N0))>>)

\* The loop of expected_queue_length, lines 956-958, from iteration k on.
RECURSIVE expected_loop(_, _, _, _, _)
expected_loop(g0, x, k, total, x_power) ==
    LET N0 == Len(g0) - 1
    IN  IF k > N0 THEN total
        ELSE expected_loop(g0, x, k + 1, total + x_power * PyGet(g0, N0 - k), x_power * x)

\* Mutant: x_power starts at 1.0 instead of X[i].
expected_queue_length_power(g0, X0, i) ==
    LET N0 == Len(g0) - 1
        total == expected_loop(g0, PyGet(X0, i), 1, 0, 1)
    IN  IF PyGet(g0, N0) = 0 THEN Raises("ZeroDivisionError")
        ELSE Returns(<<Div(total, PyGet(g0, N0))>>)

\* expected_queue_length(g, X, i), lines 951-959.
expected_queue_length(g0, X0, i) ==
    LET N0 == Len(g0) - 1
        total == expected_loop(g0, PyGet(X0, i), 1, 0, PyGet(X0, i))
    IN  IF PyGet(g0, N0) = 0 THEN Raises("ZeroDivisionError")
        ELSE Returns(<<Div(total, PyGet(g0, N0))>>)

\* Mutant: the visit ratio is dropped, every entry is the bare ratio.
throughput_unscaled(g0, e) ==
    LET N0 == Len(g0) - 1
    IN  IF PyGet(g0, N0) = 0 THEN Raises("ZeroDivisionError")
        ELSE LET ratio == Div(PyGet(g0, N0 - 1), PyGet(g0, N0))
             IN  Returns([j \in 1..Len(e) |-> ratio])

\* Mutant: a zero denominator is swallowed and 0.0 returned for every queue.
throughput_swallow(g0, e) ==
    LET N0 == Len(g0) - 1
    IN  IF PyGet(g0, N0) = 0 THEN Returns([j \in 1..Len(e) |-> Zero])
        ELSE LET ratio == Div(PyGet(g0, N0 - 1), PyGet(g0, N0))
             IN  Returns([j \in 1..Len(e) |-> Scale(e[j], ratio)])

\* throughput(g, e), lines 971-975.
throughput(g0, e) ==
    LET N0 == Len(g0) - 1
    IN  IF PyGet(g0, N0) = 0 THEN Raises("ZeroDivisionError")
        ELSE LET ratio == Div(PyGet(g0, N0 - 1), PyGet(g0, N0))
             IN  Returns([j \in 1..Len(e) |-> Scale(e[j], ratio)])

\* Mutant: a metrics function uses the table as scratch space (g[0] = 0.0).
noBuzenScratch ==
    /\ g' = PySet(g, 0, 0)
    /\ UNCHANGED <<X, N, m, n, pc, err, updates, scaledVars, parVars, siteVars, otherVars>>

noBuzen ==
    UNCHANGED <<X, N, g, m, n, pc, err, updates, scaledVars, parVars, siteVars, otherVars>>

\* A caller queries P(n_i >= k) on the completed table.
CallProbAtLeast ==
    /\ pc = "done"
    /\ \E i \in 0..(Len(X) - 1), k \in 0..(N + 2) :
          /\ op' = "prob_at_least"
          /\ qi' = i
          /\ qk' = k
          /\ qe' = <<>>
          /\ ret' = prob_at_least(g, X, i, k).val
          /\ qerr' = prob_at_least(g, X, i, k).err
    /\ noBuzen

\* A caller queries E[n_i] on the completed table.
CallExpectedQueueLength ==
    /\ pc = "done"
    /\ \E i \in 0..(Len(X) - 1) :
          /\ op' = "expected_queue_length"
          /\ qi' = i
          /\ qk' = 0
          /\ qe' = <<>>
          /\ ret' = expected_queue_length(g, X, i).val
          /\ qerr' = expected_queue_length(g, X, i).err
    /\ noBuzen

\* A caller queries the throughputs for visit ratios e.
CallThroughput ==
    /\ pc = "done"
    /\ \E e \in SeqsUpTo(VisitRatios, MaxELen) :
          /\ op' = "throughput"
          /\ qi' = 0
          /\ qk' = 0
          /\ qe' = e
          /\ ret' = throughput(g, e).val
          /\ qerr' = throughput(g, e).err
    /\ noBuzen

Next ==
    \/ BuzenInit
    \/ NextQueue
    \/ InnerStep
    \/ InnerEnd
    \/ Return

\* Runs of buzen on any input, valid or not.
Spec == Init /\ [][Next]_vars

InitMetrics ==
    /\ X \in SeqsUpTo(MetricsLoads, MetricsMaxM)
    /\ N \in MetricsPopulations
    /\ AtCall
    /\ ScaledIdle /\ ParIdle /\ SiteIdle /\ OtherIdle

NextMetrics ==
    \/ BuzenInit
    \/ NextQueue
    \/ InnerStep
    \/ InnerEnd
    \/ Return
    \/ CallProbAtLeast
    \/ CallExpectedQueueLength
    \/ CallThroughput

\* Runs of buzen on a network followed by any number of metrics queries, in
\* any order, on the returned table.
SpecMetrics == InitMetrics /\ [][NextMetrics]_vars

(***************************************************************************)
(* The recurrence with periodic rescaling: after a queue's pass, when g[N] *)
(* exceeds the threshold, every entry is divided by g[N] and the factor is *)
(* accumulated in scale.  The table holds fractions.                       *)
(***************************************************************************)
\* g = [0.0] * (N + 1); g[0] = 1.0
InitTableScaled(N0) == PySet(PyRepeat(Zero, N0 + 1), 0, One)

\* g[n] += x * g[n - 1]
UpdateScaled(g0, x, n0) ==
    PySet(g0, n0, RatAdd(PyGet(g0, n0), Scale(x, PyGet(g0, n0 - 1))))

\* Mutant: the division starts at index 1, like the recurrence's inner loop.
RescaleTail(g0) ==
    [j \in 1..Len(g0) |-> IF j = 1 THEN g0[j] ELSE RatDiv(g0[j], g0[Len(g0)])]

\* Divide all entries by g[N].
Rescale(g0) == [j \in 1..Len(g0) |-> RatDiv(g0[j], g0[Len(g0)])]

\* g[N] exceeds the threshold t.
Exceeds(g0, t) == g0[Len(g0)][1] > t * g0[Len(g0)][2]

noUnscaled ==
    UNCHANGED <<g, updates, op, qi, qk, qe, ret, qerr, parVars, siteVars, otherVars>>

ScaledInit ==
    /\ pc = "call"
    /\ gs' = InitTableScaled(N)
    /\ pc' = "outer"
    /\ UNCHANGED <<X, N, m, n, err, scale, threshold>>
    /\ noUnscaled

ScaledNextQueue ==
    /\ pc = "outer"
    /\ m < Len(X)
    /\ m' = m + 1
    /\ n' = 1
    /\ pc' = "inner"
    /\ UNCHANGED <<X, N, err, gs, scale, threshold>>
    /\ noUnscaled

ScaledInnerStep ==
    /\ pc = "inner"
    /\ n <= N
    /\ gs' = UpdateScaled(gs, X[m], n)
    /\ n' = n + 1
    /\ UNCHANGED <<X, N, m, pc, err, scale, threshold>>
    /\ noUnscaled

\* The end of a queue's pass: rescale when g[N] exceeds the threshold.
ScaledEndOfPass ==
    /\ pc = "inner"
    /\ n > N
    /\ IF Exceeds(gs, threshold)
       THEN /\ gs' = Rescale(gs)
            /\ scale' = RatMul(scale, gs[Len(gs)])
       ELSE UNCHANGED <<gs, scale>>
    /\ pc' = "outer"
    /\ UNCHANGED <<X, N, m, n, err, threshold>>
    /\ noUnscaled

ScaledReturn ==
    /\ pc = "outer"
    /\ m = Len(X)
    /\ pc' = "done"
    /\ UNCHANGED <<X, N, m, n, err, gs, scale, threshold>>
    /\ noUnscaled

InitScaled ==
    /\ X \in SeqsUpTo(MetricsLoads, MetricsMaxM)
    /\ N \in MetricsPopulations
    /\ AtCall
    /\ gs = <<>> /\ scale = One /\ threshold \in 0..MaxThreshold
    /\ ParIdle /\ SiteIdle /\ OtherIdle

NextScaled ==
    \/ ScaledInit
    \/ ScaledNextQueue
    \/ ScaledInnerStep
    \/ ScaledEndOfPass
    \/ ScaledReturn

\* Runs of the recurrence under the periodic-rescaling policy.
SpecScaled == InitScaled /\ [][NextScaled]_vars

(***************************************************************************)
(* Two calls of buzen, each with its own arguments and its own local list  *)
(* g, whose statements are interleaved in any order.                       *)
(***************************************************************************)
Procs == {1, 2}
ParLoads == 1..2

noSequential ==
    UNCHANGED <<X, N, g, m, n, pc, err, updates, op, qi, qk, qe, ret, qerr,
                scaledVars, siteVars, otherVars>>

ParBuzenInit(p) ==
    /\ ppc[p] = "call"
    /\ pg' = [pg EXCEPT ![p] = InitTable(pN[p])]
    /\ ppc' = [ppc EXCEPT ![p] = "outer"]
    /\ UNCHANGED <<pX, pN, pm, pn>>
    /\ noSequential

ParNextQueue(p) ==
    /\ ppc[p] = "outer"
    /\ pm[p] < Len(pX[p])
    /\ pm' = [pm EXCEPT ![p] = pm[p] + 1]
    /\ pn' = [pn EXCEPT ![p] = 1]
    /\ ppc' = [ppc EXCEPT ![p] = "inner"]
    /\ UNCHANGED <<pX, pN, pg>>
    /\ noSequential

\* Mutant: the loop index n is one variable shared by both calls.
ParInnerStepShared(p) ==
    /\ ppc[p] = "inner"
    /\ pn[p] <= pN[p]
    /\ pg' = [pg EXCEPT ![p] = Update(pg[p], pX[p][pm[p]], pn[p])]
    /\ pn' = [q \in Procs |-> pn[p] + 1]
    /\ UNCHANGED <<pX, pN, pm, ppc>>
    /\ noSequential

ParInnerStep(p) ==
    /\ ppc[p] = "inner"
    /\ pn[p] <= pN[p]
    /\ pg' = [pg EXCEPT ![p] = Update(pg[p], pX[p][pm[p]], pn[p])]
    /\ pn' = [pn EXCEPT ![p] = pn[p] + 1]
    /\ UNCHANGED <<pX, pN, pm, ppc>>
    /\ noSequential

ParInnerEnd(p) ==
    /\ ppc[p] = "inner"
    /\ pn[p] > pN[p]
    /\ ppc' = [ppc EXCEPT ![p] = "outer"]
    /\ UNCHANGED <<pX, pN, pg, pm, pn>>
    /\ noSequential

ParReturn(p) ==
    /\ ppc[p] = "outer"
    /\ pm[p] = Len(pX[p])
    /\ ppc' = [ppc EXCEPT ![p] = "done"]
    /\ UNCHANGED <<pX, pN, pg, pm, pn>>
    /\ noSequential

InitPar ==
    /\ pX \in [Procs -> SeqsUpTo(ParLoads, ParMaxM)]
    /\ pN \in [Procs -> 0..ParMaxN]
    /\ pg = [p \in Procs |-> <<>>]
    /\ pm = [p \in Procs |-> 0]
    /\ pn = [p \in Procs |-> 0]
    /\ ppc = [p \in Procs |-> "call"]
    /\ X = <<>> /\ N = 0 /\ AtCall
    /\ ScaledIdle /\ SiteIdle /\ OtherIdle

NextPar ==
    \/ \E p \in Procs : ParBuzenInit(p)
    \/ \E p \in Procs : ParNextQueue(p)
    \/ \E p \in Procs : ParInnerStep(p)
    \/ \E p \in Procs : ParInnerEnd(p)
    \/ \E p \in Procs : ParReturn(p)

\* Two calls of buzen interleaved statement by statement.
SpecPar == InitPar /\ [][NextPar]_vars

(***************************************************************************)
(* The blog: the content collection (src/content.config.ts), the index     *)
(* page src/pages/blog/index.astro and the routes of                       *)
(* src/pages/blog/[...slug].astro.  A file is its position in files; its   *)
(* frontmatter draft field is "true", "false" or "absent".                 *)
(***************************************************************************)
FileRecords == [underscore : BOOLEAN, draft : {"true", "false", "absent"}, pubDate : 1..2]

\* glob pattern "**/[^_]*.md": underscore-prefixed files are left out.
globMatches(f) == ~f.underscore

\* Mutant: the schema default of draft is true.
schemaDraftDefaultTrue(raw) == IF raw = "absent" THEN TRUE ELSE raw = "true"

\* draft: z.boolean().default(false)
schemaDraft(raw) == IF raw = "absent" THEN FALSE ELSE raw = "true"

\* The entries of the blog collection, from file j on: id and parsed data.
RECURSIVE blogEntriesFrom(_, _)
blogEntriesFrom(files0, j) ==
    IF j > Len(files0) THEN <<>>
    ELSE (IF globMatches(files0[j])
          THEN <<[id |-> j,
                  data |-> [draft |-> schemaDraft(files0[j].draft),
                            pubDate |-> files0[j].pubDate]]>>
          ELSE <<>>) \o blogEntriesFrom(files0, j + 1)

blog(files0) == blogEntriesFrom(files0, 1)

\* The filter of index.astro: import.meta.env.PROD ? !data.draft : true
indexFilter(prod, data) == IF prod THEN ~data.draft ELSE TRUE

\* Mutant: the routes leave drafts out in every mode (!data.draft).
pathsFilterNoDrafts(prod, data) == ~data.draft

\* The filter of getStaticPaths: import.meta.env.PROD ? !data.draft : true
pathsFilter(prod, data) == IF prod THEN ~data.draft ELSE TRUE

\* Insert post e into the list sorted by pubDate descending, after the
\* posts of the same date (Array.prototype.sort is stable).
RECURSIVE insertByPubDate(_, _)
insertByPubDate(sorted, e) ==
    IF sorted = <<>> THEN <<e>>
    ELSE IF e.data.pubDate - Head(sorted).data.pubDate > 0
         THEN <<e>> \o sorted
         ELSE <<Head(sorted)>> \o insertByPubDate(Tail(sorted), e)

\* allPosts.sort((a, b) => b.data.pubDate.valueOf() - a.data.pubDate.valueOf())
RECURSIVE sortByPubDate(_, _)
sortByPubDate(posts, k) ==
    IF k = 0 THEN <<>>
    ELSE insertByPubDate(sortByPubDate(posts, k - 1), posts[k])

ids(posts) == [j \in 1..Len(posts) |-> posts[j].id]

noComputation ==
    UNCHANGED <<X, N, g, m, n, pc, err, updates, op, qi, qk, qe, ret, qerr,
                scaledVars, parVars, otherVars>>

\* index.astro: fetch and filter the posts, sort them newest first, list them.
RenderIndex ==
    /\ "index" \notin built
    /\ LET allPosts == SelectSeq(blog(files), LAMBDA e : indexFilter(PROD, e.data))
       IN  index' = ids(sortByPubDate(allPosts, Len(allPosts)))
    /\ built' = built \cup {"index"}
    /\ UNCHANGED <<files, PROD, paths>>
    /\ noComputation

\* [...slug].astro: getStaticPaths returns one route per filtered post.
GetStaticPaths ==
    /\ "paths" \notin built
    /\ LET posts == SelectSeq(blog(files), LAMBDA e : pathsFilter(PROD, e.data))
       IN  paths' = ids(posts)
    /\ built' = built \cup {"paths"}
    /\ UNCHANGED <<files, PROD, index>>
    /\ noComputation

InitSite ==
    /\ files \in SeqsUpTo(FileRecords, MaxFiles)
    /\ PROD \in BOOLEAN
    /\ index = <<>> /\ paths = <<>> /\ built = {}
    /\ X = <<>> /\ N = 0 /\ AtCall
    /\ ScaledIdle /\ ParIdle /\ OtherIdle

NextSite ==
    \/ RenderIndex
    \/ GetStaticPaths

\* One build of the site, development or production.
SpecSite == InitSite /\ [][NextSite]_vars

(***************************************************************************)
(* Dark mode: the inline script of BaseLayout.astro and initThemeToggle of *)
(* Header.astro (src/.plans/001-IP.md).  localStorage.theme is "none"      *)
(* while the key is absent; it is shared by the open pages of the site,    *)
(* each of which has its own document.                                     *)
(***************************************************************************)
MaxPages == 3
Pages == 1..MaxPages

\* Mutant: the stored value is consulted for 'dark' only, so a stored
\* 'light' does not override the system preference.
ThemeScriptIgnoresLight(stored, prefers) == stored = "dark" \/ prefers

\* Lines 562-565: the condition under which the inline script adds the class.
ThemeScript(stored, prefers) == stored = "dark" \/ (stored = "none" /\ prefers)

noSite ==
    UNCHANGED <<X, N, g, m, n, pc, err, updates, op, qi, qk, qe, ret, qerr,
                scaledVars, parVars, siteVars>>

onlyTheme == noSite /\ UNCHANGED <<coinVars, goodsteinVars, stepVars>>

\* A page is loaded or refreshed: the served <html lang="en"> has no class,
\* the inline script of <head> runs (lines 560-568), then the header script
\* runs initThemeToggle, which sets the icons (lines 660-669, 679).
PageLoad(p) ==
    /\ LET isDark == ThemeScript(theme, prefersDark)
       IN  /\ dark' = [dark EXCEPT ![p] = isDark]
           /\ sunHidden' = [sunHidden EXCEPT ![p] = ~isDark]
           /\ moonHidden' = [moonHidden EXCEPT ![p] = isDark]
    /\ loaded' = [loaded EXCEPT ![p] = TRUE]
    /\ UNCHANGED <<theme, prefersDark>>
    /\ onlyTheme

\* Lines 671-675: the click listener of the toggle.
ClickToggle(p) ==
    /\ loaded[p]
    /\ LET isDark == ~dark[p]
       IN  /\ dark' = [dark EXCEPT ![p] = isDark]
           /\ theme' = IF isDark THEN "dark" ELSE "light"
           /\ sunHidden' = [sunHidden EXCEPT ![p] = ~isDark]
           /\ moonHidden' = [moonHidden EXCEPT ![p] = isDark]
    /\ UNCHANGED <<prefersDark, loaded>>
    /\ onlyTheme

\* The user changes the colour scheme of the system, which the script reads
\* through matchMedia('(prefers-color-scheme: dark)') at the next load.
ChangeColorScheme ==
    /\ prefersDark' = ~prefersDark
    /\ UNCHANGED <<theme, loaded, dark, sunHidden, moonHidden>>
    /\ onlyTheme

ComputationIdle == X = <<>> /\ N = 0 /\ AtCall /\ ScaledIdle /\ ParIdle

InitTheme ==
    /\ theme = "none"
    /\ prefersDark \in BOOLEAN
    /\ loaded = [p \in Pages |-> FALSE]
    /\ dark = [p \in Pages |-> FALSE]
    /\ sunHidden = [p \in Pages |-> FALSE]
    /\ moonHidden = [p \in Pages |-> FALSE]
    /\ ComputationIdle /\ SiteIdle
    /\ CoinIdle /\ GoodsteinIdle /\ StepIdle

NextTheme ==
    \/ \E p \in Pages : PageLoad(p)
    \/ \E p \in Pages : ClickToggle(p)
    \/ ChangeColorScheme

\* A browser with an empty localStorage visiting the site: loads, refreshes
\* and clicks on the toggle, in any order, in up to MaxPages open pages.
SpecTheme == InitTheme /\ [][NextTheme]_vars

(***************************************************************************)
(* Goodstein sequences: to_hereditary, evaluate, goodstein_step and        *)
(* goodstein_sequence of the blog.  A Term is the record [coeff, exp],     *)
(* exp being the list of Terms of the exponent.                            *)
(***************************************************************************)
MaxStart == 4
MaxSteps == 20
DefaultMaxSteps == 100
MaxStepN == 20
MaxStepBase == 4

\* Mutant: the inner while stops one power early, "power * base < n".
RECURSIVE find_power_strict(_, _, _, _)
find_power_strict(n0, b, power, exp) ==
    IF power * b < n0 THEN find_power_strict(n0, b, power * b, exp + 1)
    ELSE <<power, exp>>

\* Lines 432-436: the largest power of base not above n, and its exponent.
RECURSIVE find_power(_, _, _, _)
find_power(n0, b, power, exp) ==
    IF power * b <= n0 THEN find_power(n0, b, power * b, exp + 1)
    ELSE <<power, exp>>

RECURSIVE to_hereditary(_, _)
\* Lines 430-444: the outer while of to_hereditary, from the remaining n on.
RECURSIVE hereditary_loop(_, _, _)
hereditary_loop(n0, b, terms) ==
    IF n0 > 0
    THEN LET found == find_power(n0, b, 1, 0)
             coeff == n0 \div found[1]
             exp_hereditary == to_hereditary(found[2], b)
         IN  hereditary_loop(n0 % found[1], b,
                             Append(terms, [coeff |-> coeff, exp |-> exp_hereditary]))
    ELSE terms

\* to_hereditary(n, base), lines 424-446.
to_hereditary(n0, b) == IF n0 = 0 THEN <<>> ELSE hereditary_loop(n0, b, <<>>)

RECURSIVE evaluate(_, _)
\* Lines 455-460: the for loop of evaluate, from term j on.
RECURSIVE evaluate_loop(_, _, _, _)
evaluate_loop(terms, b, j, total) ==
    IF j > Len(terms) THEN total
    ELSE IF terms[j].exp = <<>>
         THEN evaluate_loop(terms, b, j + 1, total + terms[j].coeff)
         ELSE LET exp_val == evaluate(terms[j].exp, b)
              IN  evaluate_loop(terms, b, j + 1, total + terms[j].coeff * PyPow(b, exp_val))

\* evaluate(terms, base), lines 452-461.
evaluate(terms, b) == evaluate_loop(terms, b, 1, 0)

\* Mutant: the representation is evaluated in the same base, not bumped.
goodstein_step_same_base(n0, b) == evaluate(to_hereditary(n0, b), b) - 1

\* goodstein_step(n, base), lines 467-471.
goodstein_step(n0, b) == evaluate(to_hereditary(n0, b), b + 1) - 1

onlyGoodstein == noSite /\ UNCHANGED <<themeVars, coinVars, stepVars>>

\* Lines 478-479.
SequenceInit ==
    /\ gpc = "call"
    /\ seq' = <<start>>
    /\ base' = 2
    /\ gpc' = "while"
    /\ UNCHANGED <<start, max_steps>>
    /\ onlyGoodstein

\* Lines 481-484: one iteration of the while loop.
SequenceAppend ==
    /\ gpc = "while"
    /\ PyGet(seq, -1) > 0 /\ Len(seq) < max_steps
    /\ seq' = Append(seq, goodstein_step(PyGet(seq, -1), base))
    /\ base' = base + 1
    /\ UNCHANGED <<start, max_steps, gpc>>
    /\ onlyGoodstein

\* Lines 481, 486: the loop condition fails; return seq.
SequenceReturn ==
    /\ gpc = "while"
    /\ ~(PyGet(seq, -1) > 0 /\ Len(seq) < max_steps)
    /\ gpc' = "done"
    /\ UNCHANGED <<start, max_steps, seq, base>>
    /\ onlyGoodstein

\* max_steps as passed by a caller, or the default of the signature.
StepLimits == (0..MaxSteps) \cup {DefaultMaxSteps}

InitGoodstein ==
    /\ start \in 0..MaxStart
    /\ max_steps \in StepLimits
    /\ seq = <<>> /\ base = 0 /\ gpc = "call"
    /\ ComputationIdle /\ SiteIdle
    /\ ThemeIdle /\ CoinIdle /\ StepIdle

NextGoodstein ==
    \/ SequenceInit
    \/ SequenceAppend
    \/ SequenceReturn

\* Calls of goodstein_sequence(start, max_steps).
SpecGoodstein == InitGoodstein /\ [][NextGoodstein]_vars

onlyStep == noSite /\ UNCHANGED <<themeVars, coinVars, goodsteinVars>>

\* Line 469.
StepToHereditary ==
    /\ spc = "call"
    /\ hereditary' = to_hereditary(step_n, step_base)
    /\ spc' = "bump"
    /\ UNCHANGED <<step_n, step_base, bumped, step_ret>>
    /\ onlyStep

\* Line 470.
StepEvaluate ==
    /\ spc = "bump"
    /\ bumped' = evaluate(hereditary, step_base + 1)
    /\ spc' = "return"
    /\ UNCHANGED <<step_n, step_base, hereditary, step_ret>>
    /\ onlyStep

\* Line 471.
StepReturn ==
    /\ spc = "return"
    /\ step_ret' = bumped - 1
    /\ spc' = "done"
    /\ UNCHANGED <<step_n, step_base, hereditary, bumped>>
    /\ onlyStep

\* The arguments of the calls: n up to MaxStepN, base from 2 to MaxStepBase.
\* In base 2 the numbers from 2^(2^2) on bump to 3^(3^3) and more, which is
\* beyond the integers of the checker (Python's are unbounded), so base 2
\* stops below it.
StepInputs ==
    {nb \in (0..MaxStepN) \X (2..MaxStepBase) :
        nb[2] = 2 => nb[1] < PyPow(2, PyPow(2, 2))}

InitStep ==
    /\ \E nb \in StepInputs : step_n = nb[1] /\ step_base = nb[2]
    /\ hereditary = <<>> /\ bumped = 0 /\ step_ret = 0 /\ spc = "call"
    /\ ComputationIdle /\ SiteIdle
    /\ ThemeIdle /\ CoinIdle /\ GoodsteinIdle

NextStep ==
    \/ StepToHereditary
    \/ StepEvaluate
    \/ StepReturn

\* Calls of goodstein_step(n, base), statement by statement.
SpecStep == InitStep /\ [][NextStep]_vars

(***************************************************************************)
(* The counterfeit-coin script: one run of the circuit gives the bit        *)
(* is_even and the n coin bits; the script re-runs the circuit until        *)
(* is_even is 1 and reads the counterfeit index off the coin bits.          *)
(***************************************************************************)
MinCoins == 3
MaxCoins == 4
MaxIterations == 3

BitStrings(n0) == [1..n0 -> {0, 1}]

RECURSIVE Weight(_, _)
Weight(bits, j) == IF j > Len(bits) THEN 0 ELSE bits[j] + Weight(bits, j + 1)

\* e_m: only bit m is 1; its complement: only bit m is 0.
UnitString(n0, m0) == [j \in 1..n0 |-> IF j = m0 + 1 THEN 1 ELSE 0]
Complement(bits) == [j \in 1..Len(bits) |-> 1 - bits[j]]

\* The outcomes of simulator.run(circuit).  The ancilla holds the parity of
\* the coin register and is flipped before it is measured (lines 123, 129):
\* with is_even = 0 the oracle sub-circuit is skipped (line 237) and the
\* coin bits are some odd-weight string; with is_even = 1 it runs and the
\* coin bits are e_m or its complement (lines 225-230).
Outcomes(n0, m0) ==
    {[is_even |-> 0, qubit |-> b] : b \in {c \in BitStrings(n0) : Weight(c, 1) % 2 = 1}}
    \cup
    {[is_even |-> 1, qubit |-> b] : b \in {UnitString(n0, m0), Complement(UnitString(n0, m0))}}

\* Counter(data): the distinct values in the order of their first
\* occurrence (the order of the keys), and the count of a value.
RECURSIVE CounterKeys(_, _, _)
CounterKeys(d, j, keys) ==
    IF j > Len(d) THEN keys
    ELSE IF \E k \in 1..Len(keys) : keys[k] = d[j]
         THEN CounterKeys(d, j + 1, keys)
         ELSE CounterKeys(d, j + 1, Append(keys, d[j]))

Count(d, v) == Cardinality({j \in 1..Len(d) : d[j] = v})

\* Mutant: the most common value, max(counts, key=counts.get).
most_common(d) ==
    LET keys == CounterKeys(d, 1, <<>>)
        first == CHOOSE k \in 1..Len(keys) :
                    /\ \A l \in 1..Len(keys) : Count(d, keys[k]) >= Count(d, keys[l])
                    /\ \A l \in 1..(k - 1) : Count(d, keys[l]) < Count(d, keys[k])
    IN  keys[first]

\* Line 266: min(counts, key=counts.get), the first key with the least count.
least_common(d) ==
    LET keys == CounterKeys(d, 1, <<>>)
        first == CHOOSE k \in 1..Len(keys) :
                    /\ \A l \in 1..Len(keys) : Count(d, keys[k]) <= Count(d, keys[l])
                    /\ \A l \in 1..(k - 1) : Count(d, keys[l]) > Count(d, keys[k])
    IN  keys[first]

\* data.index(v): the 0-based position of the first occurrence of v.
ListIndex(d, v) == (CHOOSE j \in 1..Len(d) : d[j] = v /\ \A l \in 1..(j - 1) : d[l] # v) - 1

onlyCoins == noSite /\ UNCHANGED <<themeVars, goodsteinVars, stepVars>>

\* Lines 245-246: the first run.
FirstRun ==
    /\ cpc = "start"
    /\ results' \in Outcomes(num_coins, counterfeit_index)
    /\ num_iterations' = 1
    /\ cpc' = "while"
    /\ UNCHANGED <<num_coins, counterfeit_index, coin_data, least_common_index>>
    /\ onlyCoins

\* Lines 249-252: the parity check succeeded; print and break.
Break ==
    /\ cpc = "while"
    /\ results.is_even = 1
    /\ cpc' = "find"
    /\ UNCHANGED <<num_coins, counterfeit_index, results, num_iterations,
                   coin_data, least_common_index>>
    /\ onlyCoins

\* Lines 253-254: run the circuit again.
Rerun ==
    /\ cpc = "while"
    /\ results.is_even # 1
    /\ num_iterations < MaxIterations
    /\ results' \in Outcomes(num_coins, counterfeit_index)
    /\ num_iterations' = num_iterations + 1
    /\ UNCHANGED <<num_coins, counterfeit_index, coin_data, least_common_index, cpc>>
    /\ onlyCoins

\* Lines 262-269: read the coin bits of results and report the index.
FindCounterfeit ==
    /\ cpc = "find"
    /\ coin_data' = results.qubit
    /\ least_common_index' = ListIndex(results.qubit, least_common(results.qubit))
    /\ cpc' = "reported"
    /\ UNCHANGED <<num_coins, counterfeit_index, results, num_iterations>>
    /\ onlyCoins

InitCoins ==
    /\ num_coins \in MinCoins..MaxCoins
    /\ counterfeit_index \in 0..(num_coins - 1)
    /\ results = <<>> /\ num_iterations = 0
    /\ coin_data = <<>> /\ least_common_index = 0
    /\ cpc = "start"
    /\ ComputationIdle /\ SiteIdle
    /\ ThemeIdle /\ GoodsteinIdle /\ StepIdle

NextCoins ==
    \/ FirstRun
    \/ Break
    \/ Rerun
    \/ FindCounterfeit

\* The script for n coins with the counterfeit at m, up to MaxIterations
\* runs of the circuit.
SpecCoins == InitCoins /\ [][NextCoins]_vars

(***************************************************************************)
(* The network size of the complexity comparison, N = 50 and M = 10, next  *)
(* to the small inputs of Spec.  Its loads are 1, 1, 0, ..., 0, which keep *)
(* the entries small.                                                      *)
(***************************************************************************)
ExampleN == 50
ExampleM == 10
ExampleLoads == [j \in 1..ExampleM |-> IF j <= 2 THEN 1 ELSE 0]

InitExample ==
    /\ \/ X \in SeqsUpTo(Loads, MaxM) /\ N \in Populations
       \/ X = ExampleLoads /\ N = ExampleN
    /\ AtCall
    /\ ScaledIdle /\ ParIdle /\ SiteIdle /\ OtherIdle

\* Runs of buzen on the small inputs and on the network of the comparison.
SpecExample == InitExample /\ [][Next]_vars

(***************************************************************************)
(* Reference definitions used by the properties.                           *)
(***************************************************************************)
Power(x, k) == IF k = 0 THEN 1 ELSE x ^ k

\* g(n, m) by direct enumeration: the sum over every composition
\* (k_1, ..., k_m) of n0 into M0 non-negative parts of the product of
\* X_i ^ k_i.  The compositions are enumerated by the last part k_M0 = k.
RECURSIVE BruteForce(_, _, _), BruteForceFrom(_, _, _, _)
BruteForceFrom(X0, M0, n0, k) ==
    IF k > n0 THEN 0
    ELSE Power(X0[M0], k) * BruteForce(X0, M0 - 1, n0 - k)
         + BruteForceFrom(X0, M0, n0, k + 1)
BruteForce(X0, M0, n0) ==
    IF M0 = 0 THEN (IF n0 = 0 THEN 1 ELSE 0) ELSE BruteForceFrom(X0, M0, n0, 0)

PermutationsOf(S) == {f \in [S -> S] : \A y \in S : \E x \in S : f[x] = y}

NonNegativeLoads == \A i \in 1..Len(X) : X[i] >= 0
HasNegativeLoad == \E i \in 1..Len(X) : X[i] < 0
Started == pc \in {"outer", "inner", "done"}
Ended == pc \in {"done", "raised"}

\* C1: for valid input with M >= 1, every entry g[n] of the returned table
\* equals the brute-force sum over the compositions of n into M parts.
C1_BruteForce ==
    (pc = "done" /\ N >= 0 /\ NonNegativeLoads /\ Len(X) >= 1)
        => \A n0 \in 0..N : PyGet(g, n0) = BruteForce(X, Len(X), n0)

C1_Witness ==
    /\ pc = "done" /\ Len(X) >= 2 /\ N >= 2
    /\ \A i \in 1..Len(X) : X[i] >= 2
    /\ PyGet(g, N) = BruteForce(X, Len(X), N)

\* C2: g[0] is 1 from initialisation to return, in every state of the
\* recurrence, and before the first queue is taken every other entry is 0.
C2_GZeroIsOne ==
    /\ Started => PyGet(g, 0) = 1
    /\ (pc = "outer" /\ m = 0) => \A n0 \in 1..N : PyGet(g, n0) = 0

C2_Witness == pc = "inner" /\ m = 2 /\ n = 2 /\ X[1] > 0 /\ PyGet(g, 0) = 1

\* C3: the returned g[N] is the same for every permutation of the loads.
C3_Permutation ==
    (pc = "done" /\ N >= 0 /\ NonNegativeLoads)
        => \A p \in PermutationsOf(1..Len(X)) :
              PyGet(buzen([i \in 1..Len(X) |-> X[p[i]]], N), N) = PyGet(g, N)

C3_Witness ==
    /\ pc = "done" /\ Len(X) >= 2 /\ N >= 2 /\ X[1] # X[2] /\ X[1] > 0 /\ X[2] > 0
    /\ PyGet(buzen(<<X[2], X[1]>> \o SubSeq(X, 3, Len(X)), N), N) = PyGet(g, N)

\* C4: for X = [2, 3], N = 3 the array is [1,0,0,0] after initialisation,
\* [1,2,4,8] after queue 1 and [1,5,19,65] after queue 2 and at return.
C4_Walkthrough ==
    (X = <<2, 3>> /\ N = 3)
        => /\ (pc = "outer" /\ m = 0) => g = <<1, 0, 0, 0>>
           /\ (pc = "outer" /\ m = 1) => g = <<1, 2, 4, 8>>
           /\ (pc = "outer" /\ m = 2) => g = <<1, 5, 19, 65>>
           /\ pc = "done" => g = <<1, 5, 19, 65>>

C4_Witness == X = <<2, 3>> /\ N = 3 /\ pc = "done" /\ PyGet(g, 3) = 65

\* C5: for valid input the table has exactly N + 1 entries, from allocation
\* to return, and for N = 0 the returned table is [1] whatever the loads.
C5_Length ==
    (Started /\ N >= 0 /\ NonNegativeLoads /\ (Len(X) >= 1 \/ N = 0))
        => /\ Len(g) = N + 1
           /\ (pc = "done" /\ N = 0) => g = <<1>>

C5_Witness == pc = "done" /\ N = 0 /\ X = <<>> /\ g = <<1>>

\* C6 as stated: with no loads and N > 0 the call ends in a DomainError and
\* returns no table.
C6_Original ==
    (Len(X) = 0 /\ N > 0 /\ Ended) => (pc = "raised" /\ err = "DomainError")

\* C6, amended: with no loads and N > 0 the call raises nothing and returns
\* the table [1, 0, ..., 0] of N + 1 entries (g(0, 0) = 1, g(n, 0) = 0).
C6_EmptyLoads ==
    (Len(X) = 0 /\ N > 0 /\ pc # "call")
        => /\ err = "none"
           /\ pc # "raised"
           /\ pc = "done" => g = [j \in 1..(N + 1) |-> IF j = 1 THEN 1 ELSE 0]

C6_Witness == Len(X) = 0 /\ N = MaxN /\ pc = "done" /\ PyGet(g, N) = 0

\* C7 as stated: with a negative load the call ends in a DomainError raised
\* before any recurrence update, and returns no table.
C7_Original ==
    (HasNegativeLoad /\ N >= 0)
        => (Ended => (pc = "raised" /\ err = "DomainError"))

\* C7, amended: the loads are not validated.  With N >= 0 and a negative
\* load the call raises nothing, folds the negative load into the recurrence
\* like any other and returns the N + 1 entries g(n, M) of the enumeration
\* formula; X = [-1], N = 2 returns [1, -1, 1].
C7_NegativeLoad ==
    (HasNegativeLoad /\ N >= 0)
        => /\ err = "none"
           /\ pc # "raised"
           /\ pc = "done" =>
                 /\ Len(g) = N + 1
                 /\ \A n0 \in 0..N : PyGet(g, n0) = BruteForce(X, Len(X), n0)
                 /\ (X = <<-1>> /\ N = 2) => g = <<1, -1, 1>>

C7_Witness == X = <<-1>> /\ N = 2 /\ pc = "done" /\ g = <<1, -1, 1>>

\* C8 as stated: with N < 0 the call ends in a DomainError.
C8_Original == (N < 0 /\ Ended) => (pc = "raised" /\ err = "DomainError")

\* C8, amended: with N < 0 the call fails for every loads sequence, with the
\* IndexError that "g[0] = 1.0" raises on the empty list, before any
\* recurrence update; the error kind is IndexError, not DomainError.
C8_NegativePopulation ==
    (N < 0 /\ pc # "call") => (pc = "raised" /\ err = "IndexError" /\ g = <<>>)

C8_Witness == N < 0 /\ Len(X) = MaxM /\ pc = "raised" /\ err = "IndexError"

\* C9: on a table with g[N] # 0, prob_at_least returns X_i^k * g[N-k] / g[N]
\* for 0 <= k <= N and 0 for k > N; for X = [2,3], N = 3, X_i = 3, k = 1 it
\* returns 3*19/65 = 57/65.
C9_ProbAtLeast ==
    (op = "prob_at_least" /\ g[N + 1] # 0)
        => /\ qerr = "none"
           /\ Len(ret) = 1
           /\ ret[1][2] > 0
           /\ qk > N => ret[1] = Zero
           /\ qk <= N =>
                 ret[1][1] * g[N + 1] = ret[1][2] * Power(X[qi + 1], qk) * g[N - qk + 1]
           /\ (X = <<2, 3>> /\ N = 3 /\ qi = 1 /\ qk = 1) => ret[1] = <<57, 65>>

C9_Witness ==
    /\ op = "prob_at_least" /\ X = <<2, 3>> /\ N = 3 /\ qi = 1 /\ qk = 1
    /\ ret = << <<57, 65>> >>

\* C10 as stated: with N = 0 (table [1]) throughput returns 0 for every
\* queue, whatever the visit ratios.
C10_ThroughputZero ==
    (op = "throughput" /\ N = 0)
        => /\ qerr = "none"
           /\ Len(ret) = Len(qe)
           /\ \A j \in 1..Len(ret) : ret[j] = Zero

\* C11: for N >= 1 and g[N] # 0, throughput returns one entry per visit
\* ratio, entry j being e_j * g[N-1] / g[N], and every entry is >= 0.
C11_Throughput ==
    (op = "throughput" /\ N >= 1 /\ g[N + 1] # 0)
        => /\ qerr = "none"
           /\ Len(ret) = Len(qe)
           /\ \A j \in 1..Len(qe) :
                 /\ ret[j][2] > 0
                 /\ ret[j][1] * g[N + 1] = ret[j][2] * qe[j] * g[N]
                 /\ ret[j][1] >= 0

C11_Witness ==
    /\ op = "throughput" /\ X = <<2, 3>> /\ N = 3 /\ qe = <<1, 2>>
    /\ ret = << <<19, 65>>, <<38, 65>> >>

\* The query divides by g[N]: every query but prob_at_least with k > N.
Divides == op \in {"expected_queue_length", "throughput"}
              \/ (op = "prob_at_least" /\ qk <= N)

\* C12 as stated: with g[N] = 0 each metrics query that divides fails with a
\* NumericalError.
C12_Original == (Divides /\ g[N + 1] = 0) => qerr = "NumericalError"

\* C12, amended: with g[N] = 0 each metrics query that divides fails with
\* the ZeroDivisionError of the float division and returns nothing; the
\* error kind is ZeroDivisionError, not NumericalError.
C12_ZeroDenominator ==
    (Divides /\ g[N + 1] = 0) => (qerr = "ZeroDivisionError" /\ ret = <<>>)

C12_Witness ==
    /\ op = "throughput" /\ X = <<0, 0>> /\ N = 2 /\ qe = <<1>>
    /\ qerr = "ZeroDivisionError"

RECURSIVE SumProbAtLeast(_, _, _, _, _)
SumProbAtLeast(g0, X0, i, lo, hi) ==
    IF lo > hi THEN Zero
    ELSE RatAdd(prob_at_least(g0, X0, i, lo).val[1], SumProbAtLeast(g0, X0, i, lo + 1, hi))

\* C13: with g[N] # 0, expected_queue_length equals the sum over k = 1..N of
\* prob_at_least(g, X, i, k), and is 0 when N = 0.
C13_ExpectedLength ==
    (op = "expected_queue_length" /\ g[N + 1] # 0)
        => /\ qerr = "none"
           /\ ret = <<SumProbAtLeast(g, X, qi, 1, N)>>
           /\ N = 0 => ret = <<Zero>>

C13_Witness ==
    /\ op = "expected_queue_length" /\ X = <<2, 3>> /\ N = 3 /\ qi = 1
    /\ ret = << <<129, 65>> >>

\* C14: with g[N] # 0, prob_at_least(g, X, i, 0) is 1 for every queue.
C14_AtLeastZero ==
    (op = "prob_at_least" /\ qk = 0 /\ g[N + 1] # 0)
        => (qerr = "none" /\ ret = <<One>>)

C14_Witness ==
    /\ op = "prob_at_least" /\ qk = 0 /\ qi = 0 /\ X = <<2, 3>> /\ N = 3
    /\ ret = <<One>>

\* The point mass P(n_i = k) = P(n_i >= k) - P(n_i >= k + 1), summed over
\* k = lo..hi.
RECURSIVE SumPointMass(_, _, _, _, _)
SumPointMass(g0, X0, i, lo, hi) ==
    IF lo > hi THEN Zero
    ELSE RatAdd(RatAdd(prob_at_least(g0, X0, i, lo).val[1],
                       RatNeg(prob_at_least(g0, X0, i, lo + 1).val[1])),
                SumPointMass(g0, X0, i, lo + 1, hi))

\* C15: with g[N] # 0, for every queue the point masses
\* prob_at_least(k) - prob_at_least(k + 1), k = 0..N, sum to 1.
C15_PointMass ==
    (pc = "done" /\ g[N + 1] # 0)
        => \A i \in 0..(Len(X) - 1) : SumPointMass(g, X, i, 0, N) = One

C15_Witness ==
    /\ pc = "done" /\ op = "prob_at_least" /\ qk = N + 1 /\ X = <<2, 3>> /\ N = 3
    /\ SumPointMass(g, X, qi, 0, N) = One

\* C16: on a table built from non-negative loads with g[N] # 0,
\* prob_at_least returns a value in [0, 1] for every queue and every k >= 0.
C16_Probability ==
    (op = "prob_at_least" /\ g[N + 1] # 0)
        => /\ qerr = "none"
           /\ ret[1][2] > 0
           /\ 0 <= ret[1][1]
           /\ ret[1][1] <= ret[1][2]

C16_Witness ==
    /\ op = "prob_at_least" /\ qk = N /\ N = 3 /\ X = <<1, 3>> /\ qi = 1
    /\ ret[1][1] > 0 /\ ret[1][1] < ret[1][2]

\* The result a query of the current kind and arguments has on table g0.
ResultOn(g0) ==
    CASE op = "prob_at_least" -> prob_at_least(g0, X, qi, qk)
      [] op = "expected_queue_length" -> expected_queue_length(g0, X, qi)
      [] op = "throughput" -> throughput(g0, qe)
      [] OTHER -> Returns(<<>>)

\* C17: a metrics query leaves the table, the loads and the population as
\* buzen returned them and takes no recurrence step; after any sequence of
\* queries, a query returns what it returns on the table buzen returned.
C17_Pure ==
    /\ [][pc = "done" => (g' = g /\ X' = X /\ N' = N /\ m' = m /\ n' = n
                             /\ pc' = "done")]_vars
    /\ [](pc = "done" =>
              /\ g = buzen(X, N)
              /\ ret = ResultOn(buzen(X, N)).val
              /\ qerr = ResultOn(buzen(X, N)).err)

C17_Witness ==
    /\ op = "throughput" /\ qe = <<2, 1>> /\ X = <<2, 3>> /\ N = 3
    /\ g = <<1, 5, 19, 65>> /\ ret = << <<38, 65>>, <<19, 65>> >>

\* C18: under periodic rescaling, every ratio g[N-k] / g[N], 0 <= k <= N, of
\* the final table equals the ratio of the unscaled computation on (X, N).
C18_Rescaling ==
    (pc = "done" /\ gs[N + 1] # Zero)
        => \A k \in 0..N :
              RatDiv(gs[N - k + 1], gs[N + 1])
                  = Div(buzen(X, N)[N - k + 1], buzen(X, N)[N + 1])

\* A run that rescaled after an earlier pass and went on with the scaled table.
C18_Witness ==
    /\ pc = "done" /\ Len(X) >= 2 /\ N >= 2
    /\ scale # One /\ gs[N + 1] # One /\ gs[N + 1] # Zero /\ gs[1] # One

\* C19: however the steps of two calls are interleaved, each call returns
\* the table it returns when run alone, and a step of one call changes no
\* state of the other.
C19_Independent ==
    /\ [][\E p \in Procs : \A q \in Procs \ {p} :
              /\ pg'[q] = pg[q] /\ pm'[q] = pm[q] /\ pn'[q] = pn[q]
              /\ ppc'[q] = ppc[q]]_vars
    /\ [](\A p \in Procs : ppc[p] = "done" => pg[p] = buzen(pX[p], pN[p]))

\* Both calls have returned, on different arguments, after one overtook the
\* other inside its inner loop.
C19_Witness ==
    /\ ppc[1] = "done" /\ ppc[2] = "inner" /\ pn[2] = 2
    /\ pX[1] = <<1, 2>> /\ pN[1] = 2 /\ pX[2] = <<2>> /\ pN[2] = 2
    /\ pg[1] = <<1, 3, 7>> /\ pg[2] = <<1, 2, 0>>

Range(q) == {q[j] : j \in 1..Len(q)}

\* The files that are posts of the collection, by their draft field.
Posts == {j \in 1..Len(files) : ~files[j].underscore}
DraftPosts == {j \in Posts : files[j].draft = "true"}

\* C20: a post with draft: true is in the index and in the routes exactly in
\* development; a post with draft false or absent is in both in every mode;
\* the index and the routes list the same posts.
C20_Drafts ==
    /\ "index" \in built =>
           Range(index) = IF PROD THEN Posts \ DraftPosts ELSE Posts
    /\ "paths" \in built =>
           Range(paths) = IF PROD THEN Posts \ DraftPosts ELSE Posts
    /\ built = {"index", "paths"} => Range(index) = Range(paths)

C20_Witness ==
    /\ PROD /\ built = {"index", "paths"} /\ Len(files) = 2
    /\ files[1].draft = "true" /\ files[2].draft = "absent"
    /\ ~files[1].underscore /\ ~files[2].underscore
    /\ index = <<2>> /\ paths = <<2>>

\* C21: a click on the toggle flips the dark class of <html> and stores
\* 'dark' or 'light' according to the new class; a page load applies the
\* class exactly when the stored theme is 'dark' or, with nothing stored,
\* exactly when the system prefers dark.
C21_Theme ==
    [][\A p \in Pages :
          /\ ClickToggle(p)
                => /\ dark'[p] = ~dark[p]
                   /\ theme' = IF dark'[p] THEN "dark" ELSE "light"
          /\ PageLoad(p)
                => dark'[p] = IF theme # "none" THEN theme = "dark" ELSE prefersDark]_vars

\* Two pages open under a dark system preference with 'light' stored by a
\* click: neither has the class, and both show the moon icon.
C21_Witness ==
    /\ theme = "light" /\ prefersDark
    /\ loaded[1] /\ ~dark[1] /\ moonHidden[1] = FALSE
    /\ loaded[2] /\ ~dark[2] /\ sunHidden[2] = TRUE

\* C22: goodstein_sequence(3) returns [3, 3, 3, 2, 1, 0];
\* goodstein_sequence(4, max_steps=20) returns the twenty values from 4 to
\* 884 printed in the post; and in every sequence the element after element
\* j (counted from 0) is goodstein_step(element j, j + 2).
C22_Goodstein ==
    /\ (gpc = "done" /\ start = 3 /\ max_steps = DefaultMaxSteps)
          => seq = <<3, 3, 3, 2, 1, 0>>
    /\ (gpc = "done" /\ start = 4 /\ max_steps = 20)
          => seq = <<4, 26, 41, 60, 83, 109, 139, 173, 211, 253,
                     299, 348, 401, 458, 519, 584, 653, 726, 803, 884>>
    /\ \A j \in 0..(Len(seq) - 2) :
          PyGet(seq, j + 1) = goodstein_step(PyGet(seq, j), j + 2)

C22_Witness ==
    /\ gpc = "done" /\ start = 4 /\ max_steps = 20
    /\ Len(seq) = 20 /\ PyGet(seq, -1) = 884 /\ base = 21

\* The coefficients of a representation lie in 1..base-1 and its exponents
\* decrease strictly from term to term, at every nesting depth.
RECURSIVE WellFormed(_, _)
WellFormed(terms, b) ==
    \A j \in 1..Len(terms) :
        /\ terms[j].coeff \in 1..(b - 1)
        /\ WellFormed(terms[j].exp, b)
        /\ j < Len(terms) => evaluate(terms[j].exp, b) > evaluate(terms[j + 1].exp, b)

C23_Counterfeit ==
    /\ cpc \in {"find", "reported"} => results.is_even = 1
    /\ cpc = "reported"
          => /\ coin_data = results.qubit
             /\ coin_data \in {UnitString(num_coins, counterfeit_index),
                               Complement(UnitString(num_coins, counterfeit_index))}
                   => least_common_index = counterfeit_index

\* The third run succeeds and measures the complement of e_2 among 4 coins.
C23_Witness ==
    /\ cpc = "reported" /\ num_iterations = 3
    /\ num_coins = 4 /\ counterfeit_index = 2
    /\ coin_data = <<1, 1, 0, 1>> /\ least_common_index = 2

\* The recurrence of the post: g(n, m) = g(n, m-1) + X_m * g(n-1, m), with
\* g(0, m) = 1 and g(n, 0) = 0 for n > 0.
RECURSIVE Recurrence(_, _, _)
Recurrence(X0, n0, m0) ==
    IF n0 = 0 THEN 1
    ELSE IF m0 = 0 THEN 0
    ELSE Recurrence(X0, n0, m0 - 1) + X0[m0] * Recurrence(X0, n0 - 1, m0)

\* The recurrence with two buffers: column m is written into a fresh list
\* from column m - 1, which is only read.
RECURSIVE NextColumn(_, _, _, _)
NextColumn(old, x, n0, fresh) ==
    IF n0 > Len(old) - 1 THEN fresh
    ELSE NextColumn(old, x, n0 + 1,
                    PySet(fresh, n0, PyGet(old, n0) + x * PyGet(fresh, n0 - 1)))

RECURSIVE DoubleBuffered(_, _, _)
DoubleBuffered(X0, N0, m0) ==
    IF m0 = 0 THEN InitTable(N0)
    ELSE NextColumn(DoubleBuffered(X0, N0, m0 - 1), X0[m0], 1, InitTable(N0))

\* C24: after the passes of the first m queues g[n] = g(n, m) for every n in
\* 0..N, and the table equals the one of the double-buffered recurrence.
C24_LoopInvariant ==
    pc \in {"outer", "done"}
        => /\ \A n0 \in 0..N : PyGet(g, n0) = Recurrence(X, n0, m)
           /\ g = DoubleBuffered(X, N, m)

C24_Witness ==
    /\ pc = "outer" /\ m = 2 /\ Len(X) = 3 /\ X[1] = 2 /\ X[2] = 3 /\ N = 3
    /\ g = <<1, 5, 19, 65>>

\* buzen with the inner loop running from N down to 1.
RECURSIVE inner_loop_decreasing(_, _, _)
inner_loop_decreasing(g0, x, n0) ==
    IF n0 < 1 THEN g0 ELSE inner_loop_decreasing(Update(g0, x, n0), x, n0 - 1)

RECURSIVE outer_loop_decreasing(_, _, _, _)
outer_loop_decreasing(g0, X0, m0, N0) ==
    IF m0 > Len(X0) THEN g0
    ELSE outer_loop_decreasing(inner_loop_decreasing(g0, X0[m0], N0), X0, m0 + 1, N0)

buzen_decreasing(X0, N0) == outer_loop_decreasing(InitTable(N0), X0, 1, N0)

\* C25: when the pass of queue m is about to update index n, g[n-1] holds
\* g(n-1, m) and g[n] still holds g(n, m-1); with the indices in decreasing
\* order the result is not g(n, m): for X = [2], N = 2 the last entry is 0
\* where g(2, 1) = 4.
C25_IncreasingOrder ==
    /\ (pc = "inner" /\ n <= N)
          => /\ PyGet(g, n - 1) = Recurrence(X, n - 1, m)
             /\ PyGet(g, n) = Recurrence(X, n, m - 1)
    /\ (pc = "done" /\ X = <<2>> /\ N = 2)
          => /\ g = <<1, 2, 4>>
             /\ buzen_decreasing(X, N) = <<1, 2, 0>>
             /\ PyGet(buzen_decreasing(X, N), 2) # Recurrence(X, 2, 1)

C25_Witness ==
    /\ pc = "inner" /\ X = <<2, 3>> /\ N = 3 /\ m = 2 /\ n = 2
    /\ g = <<1, 5, 4, 8>>

\* C26: buzen returns after exactly N * M executions of the multiply-add
\* (pass m has done n - 1 of its N when about to update index n), 500 of
\* them for N = 50 and M = 10, and its only list is the table of N + 1
\* entries.
C26_Updates ==
    /\ pc = "inner" => updates = (m - 1) * N + (n - 1)
    /\ pc = "done" => updates = N * Len(X)
    /\ (pc = "done" /\ N = ExampleN /\ Len(X) = ExampleM) => updates = 500
    /\ Started => Len(g) = N + 1

C26_Witness ==
    /\ pc = "done" /\ N = 50 /\ Len(X) = 10 /\ updates = 500
    /\ Len(g) = 51 /\ PyGet(g, 50) = 51

InsertAt(X0, p, v) == SubSeq(X0, 1, p) \o <<v>> \o SubSeq(X0, p + 1, Len(X0))

\* C27: the pass of a queue with load 0 leaves every entry as the queues
\* before it left them; a load 0 inserted anywhere in X does not change
\* the returned table; and with g[N] # 0 a queue of load 0 has
\* prob_at_least 0 for every k >= 1 and expected_queue_length 0.
C27_ZeroLoad ==
    /\ (pc \in {"inner", "outer"} /\ m >= 1 /\ X[m] = 0)
          => g = buzen(SubSeq(X, 1, m - 1), N)
    /\ (pc = "done" /\ op = "none")
          => \A p \in 0..Len(X) : buzen(InsertAt(X, p, 0), N) = g
    /\ (op = "prob_at_least" /\ PyGet(X, qi) = 0 /\ qk >= 1 /\ g[N + 1] # 0)
          => (qerr = "none" /\ ret = <<Zero>>)
    /\ (op = "expected_queue_length" /\ PyGet(X, qi) = 0 /\ g[N + 1] # 0)
          => (qerr = "none" /\ ret = <<Zero>>)

C27_Witness ==
    /\ op = "prob_at_least" /\ X = <<2, 0>> /\ N = 3 /\ qi = 1 /\ qk = 1
    /\ g = <<1, 2, 4, 8>> /\ ret = <<Zero>>

RECURSIVE SumExpectedLength(_, _, _)
SumExpectedLength(g0, X0, i) ==
    IF i > Len(X0) - 1 THEN Zero
    ELSE RatAdd(expected_queue_length(g0, X0, i).val[1], SumExpectedLength(g0, X0, i + 1))

\* C28: with g[N] # 0 the expected queue lengths of all the queues add up
\* to the population N.
C28_Conservation ==
    (pc = "done" /\ op \in {"none", "expected_queue_length"} /\ g[N + 1] # 0)
        => SumExpectedLength(g, X, 0) = <<N, 1>>

C28_Witness ==
    /\ op = "expected_queue_length" /\ Len(X) = 2 /\ N = 3
    /\ X[1] = 1 /\ X[2] = 3 /\ qi = 0 /\ ret # <<Zero>>
    /\ RatAdd(ret[1], expected_queue_length(g, X, 1).val[1]) = <<3, 1>>

\* C29: with non-negative loads no entry of g is ever negative; with at
\* least one queue and N >= 1 the returned g[N] is 0 exactly when every
\* load is 0; and with a positive load no metrics query divides by zero.
C29_NonNegative ==
    NonNegativeLoads
        => /\ \A j \in 1..Len(g) : g[j] >= 0
           /\ (pc = "done" /\ Len(X) >= 1 /\ N >= 1)
                 => (g[N + 1] = 0 <=> \A i \in 1..Len(X) : X[i] = 0)
           /\ (\E i \in 1..Len(X) : X[i] > 0) => qerr # "ZeroDivisionError"

C29_Witness ==
    /\ op = "throughput" /\ X = <<0, 1>> /\ N = 2 /\ qe = <<1, 2>>
    /\ qerr = "none" /\ g[N + 1] > 0

====
